---- MODULE Spec2Model ----
(***************************************************************************)
(* Model of browser_use/dom/service.py: DomService.get_clickable_elements, *)
(* _build_dom_tree (with find_cross_origin_iframes and find_iframe_node),  *)
(* _create_selector_map and _parse_node.                                   *)
(*                                                                         *)
(* Python objects live in a heap: a sequence of node records, a node's     *)
(* identity being its position.  Raw records returned by the in-page       *)
(* script are values; the fields _parse_node reads with [] are modelled by *)
(* presence flags, the ones it reads with .get() by their value or default.*)
(***************************************************************************)
EXTENDS Integers, Sequences, FiniteSets, TLC

----------------------------------------------------------------------------
(* Bounds of the explored inputs *)

\* highlight indices handed out by one run of the script are 0..MaxIndex
MaxIndex == 1
\* longest raw 'children' list of the main document's root record
MaxChildren == 2

\* names of the frames page.frame() may know
FrameIds == {"f1", "f2"}

\* Python None, as a node reference / as a highlight index / as an id
None == 0
NoIndex == 0 - 1
NoId == "None"

----------------------------------------------------------------------------
(* Raw records: what page.evaluate / frame.evaluate return *)

Record(shape, type, hasText, hasIsVisible, hasTagName, hasXpath, hi, cross, id, children) ==
    [shape |-> shape, type |-> type,
     hasText |-> hasText, hasIsVisible |-> hasIsVisible,
     hasTagName |-> hasTagName, hasXpath |-> hasXpath,
     highlightIndex |-> hi, crossOriginIframe |-> cross, id |-> id,
     children |-> children]

\* JSON null
NullRecord == Record("None", "", FALSE, FALSE, FALSE, FALSE, NoIndex, FALSE, NoId, <<>>)
\* the empty object {}
EmptyRecord == Record("{}", "", FALSE, FALSE, FALSE, FALSE, NoIndex, FALSE, NoId, <<>>)
\* {type: 'TEXT_NODE', text?, isVisible?}
TextRecord(hasText, hasIsVisible) ==
    Record("dict", "TEXT_NODE", hasText, hasIsVisible, FALSE, FALSE, NoIndex, FALSE, NoId, <<>>)
\* {tagName, xpath, highlightIndex?, crossOriginIframe?, id?, children?}
ElementRecord(hi, cross, id, children) ==
    Record("dict", "ELEMENT", FALSE, FALSE, TRUE, TRUE, hi, cross, id, children)
\* an element record without 'tagName', one without 'xpath'
NoTagNameRecord == Record("dict", "ELEMENT", FALSE, FALSE, FALSE, TRUE, NoIndex, FALSE, NoId, <<>>)
NoXpathRecord == Record("dict", "ELEMENT", FALSE, FALSE, TRUE, FALSE, NoIndex, FALSE, NoId, <<>>)

HiVals == {NoIndex} \cup (0..MaxIndex)
IdVals == {NoId} \cup FrameIds

TextRecords == {TextRecord(t, v) : t \in BOOLEAN, v \in BOOLEAN}

\* all sequences over S of length at most n
RECURSIVE SeqUpTo(_, _)
SeqUpTo(S, n) ==
    IF n = 0 THEN {<<>>}
    ELSE LET shorter == SeqUpTo(S, n - 1)
         IN shorter \cup {Append(s, x) : s \in {t \in shorter : Len(t) = n - 1}, x \in S}

\* the non-null highlight indices of a record and its descendants, as a sequence
RECURSIVE IndicesOf(_), IndicesOfAll(_)
IndicesOf(d) ==
    (IF d.shape = "dict" /\ d.highlightIndex # NoIndex THEN <<d.highlightIndex>> ELSE <<>>)
        \o IndicesOfAll(d.children)
IndicesOfAll(ds) ==
    IF ds = <<>> THEN <<>> ELSE IndicesOf(Head(ds)) \o IndicesOfAll(Tail(ds))

\* one run of the script numbers the elements it highlights with distinct indices
DistinctIndices(d) ==
    LET s == IndicesOf(d) IN \A a, b \in DOMAIN s : s[a] = s[b] => a = b

\* children of the main document's root
MainLeaves ==
    {NullRecord, EmptyRecord} \cup TextRecords \cup {NoTagNameRecord, NoXpathRecord}
        \cup {ElementRecord(hi, FALSE, NoId, <<>>) : hi \in HiVals}
        \cup {ElementRecord(NoIndex, TRUE, id, <<>>) : id \in IdVals}

\* results of the script in the main document
MainRecords ==
    {NullRecord, EmptyRecord} \cup TextRecords \cup {NoTagNameRecord, NoXpathRecord}
        \cup {d \in {ElementRecord(NoIndex, FALSE, id, cs) :
                        id \in IdVals, cs \in SeqUpTo(MainLeaves, MaxChildren)} :
                DistinctIndices(d)}

\* children of an iframe document's root
IframeLeaves ==
    {NullRecord, TextRecord(TRUE, TRUE)}
        \cup {ElementRecord(NoIndex, TRUE, id, <<>>) : id \in FrameIds}

\* results of the script inside a frame
IframeRecords ==
    {NullRecord, EmptyRecord} \cup TextRecords \cup {NoTagNameRecord, NoXpathRecord}
        \cup {d \in {ElementRecord(hi, FALSE, NoId, cs) :
                        hi \in HiVals, cs \in {<<>>} \cup {<<c>> : c \in IframeLeaves}} :
                DistinctIndices(d)}

----------------------------------------------------------------------------
(* The heap of DOMTextNode / DOMElementNode objects *)

\* DOMTextNode(text, is_visible, parent)
TextNode(parent) ==
    [type |-> "text", highlight_index |-> NoIndex, is_cross_oirigin_iframe |-> FALSE,
     id |-> NoId, parent |-> parent, children |-> <<>>]

\* DOMElementNode(..., children=[], highlight_index, is_cross_oirigin_iframe, id, parent)
ElementNode(d, parent) ==
    [type |-> "element", highlight_index |-> d.highlightIndex,
     is_cross_oirigin_iframe |-> d.crossOriginIframe,
     id |-> d.id, parent |-> parent, children |-> <<>>]

\* isinstance(node, DOMElementNode), for a reference that may be None
IsElement(h, n) == n # None /\ h[n].type = "element"

\* 'not node_data': None and the empty dict are both falsy
Falsy(d) == d.shape # "dict"

\* what a _parse_node call hands back: the node (or None), the heap with the
\* nodes it created, or the KeyError it raised
Parsed(node, h) == [node |-> node, heap |-> h, err |-> FALSE]
Raised(h) == [node |-> None, heap |-> h, err |-> TRUE]

\* mutant of ParseText: is_visible read with .get(), as the element branch does
ParseTextLenient(d, parent, h) ==
    IF ~d.hasText THEN Raised(h)
    ELSE Parsed(Len(h) + 1, Append(h, TextNode(parent)))

\* the text branch of _parse_node: node_data['text'], node_data['isVisible']
ParseText(d, parent, h) ==
    IF ~d.hasText \/ ~d.hasIsVisible THEN Raised(h)
    ELSE Parsed(Len(h) + 1, Append(h, TextNode(parent)))

\* mutant of AppendChild: children.insert(0, child_node)
PrependChild(children, child_node) == <<child_node>> \o children

\* children.append(child_node)
AppendChild(children, child_node) == Append(children, child_node)

RECURSIVE ParseNode(_, _, _), ParseChildren(_, _, _, _)

\* the loop over node_data.get('children', []) in _parse_node
ParseChildren(cs, element_node, h, children) ==
    IF cs = <<>> THEN [children |-> children, heap |-> h, err |-> FALSE]
    ELSE LET child == Head(cs) IN
         IF child.shape = "None" THEN ParseChildren(Tail(cs), element_node, h, children)
         ELSE LET r == ParseNode(child, element_node, h) IN
              IF r.err THEN [children |-> children, heap |-> h, err |-> TRUE]
              ELSE ParseChildren(Tail(cs), element_node, r.heap,
                                 IF r.node # None THEN AppendChild(children, r.node)
                                 ELSE children)

\* DomService._parse_node(node_data, parent)
ParseNode(node_data, parent, h) ==
    IF Falsy(node_data) THEN Parsed(None, h)
    ELSE IF node_data.type = "TEXT_NODE" THEN ParseText(node_data, parent, h)
    ELSE IF ~node_data.hasTagName THEN Raised(h)
    ELSE IF ~node_data.hasXpath THEN Raised(h)
    ELSE LET element_node == Len(h) + 1
             r == ParseChildren(node_data.children, element_node,
                                Append(h, ElementNode(node_data, parent)), <<>>)
         IN IF r.err THEN Raised(h)
            ELSE Parsed(element_node, [r.heap EXCEPT ![element_node].children = r.children])

RECURSIVE FindCrossOriginIframes(_, _), FindCrossOriginIframesIn(_, _)

\* find_cross_origin_iframes(node), a pre-order collection
FindCrossOriginIframes(h, node) ==
    (IF h[node].is_cross_oirigin_iframe THEN <<node>> ELSE <<>>)
        \o FindCrossOriginIframesIn(h, h[node].children)
FindCrossOriginIframesIn(h, children) ==
    IF children = <<>> THEN <<>>
    ELSE (IF IsElement(h, Head(children)) THEN FindCrossOriginIframes(h, Head(children))
          ELSE <<>>)
         \o FindCrossOriginIframesIn(h, Tail(children))

RECURSIVE FindIframeNode(_, _, _), FindIframeNodeIn(_, _, _)

\* find_iframe_node(node): the first node in pre-order whose id is iframe.id
FindIframeNode(h, node, id) ==
    IF h[node].id = id THEN node ELSE FindIframeNodeIn(h, h[node].children, id)
FindIframeNodeIn(h, children, id) ==
    IF children = <<>> THEN None
    ELSE LET result == IF IsElement(h, Head(children))
                       THEN FindIframeNode(h, Head(children), id) ELSE None
         IN IF result # None THEN result ELSE FindIframeNodeIn(h, Tail(children), id)

\* page.frame(name): the frame of that name, if the page has one now
PageFrame(frames, name) == name # NoId /\ name \in frames

\* mutant of Splice: the children are replaced, the parent reference is not set
SpliceNoParent(h, iframe_node, iframe_dom) ==
    [h EXCEPT ![iframe_node].children = <<iframe_dom>>]

\* iframe_dom.parent = iframe_node; iframe_node.children = [iframe_dom]
Splice(h, iframe_node, iframe_dom) ==
    [h EXCEPT ![iframe_dom].parent = iframe_node,
              ![iframe_node].children = <<iframe_dom>>]

\* selector_map[node.highlight_index] = node
PutSelector(selector_map, key, node) ==
    [k \in DOMAIN selector_map \cup {key} |-> IF k = key THEN node ELSE selector_map[k]]

RECURSIVE ProcessNode(_, _, _), ProcessNodes(_, _, _)

\* process_node(node) of _create_selector_map
ProcessNode(h, node, selector_map) ==
    IF h[node].type = "element"
    THEN ProcessNodes(h, h[node].children,
                      IF h[node].highlight_index # NoIndex
                      THEN PutSelector(selector_map, h[node].highlight_index, node)
                      ELSE selector_map)
    ELSE selector_map
ProcessNodes(h, children, selector_map) ==
    IF children = <<>> THEN selector_map
    ELSE ProcessNodes(h, Tail(children), ProcessNode(h, Head(children), selector_map))

\* mutant of CreateSelectorMap: every node ever parsed is indexed, not only
\* the ones in the tree
RECURSIVE IndexAll(_, _, _)
IndexAll(h, n, selector_map) ==
    IF n > Len(h) THEN selector_map
    ELSE IndexAll(h, n + 1,
                  IF h[n].type = "element" /\ h[n].highlight_index # NoIndex
                  THEN PutSelector(selector_map, h[n].highlight_index, n)
                  ELSE selector_map)
CreateSelectorMapOfHeap(h, element_tree) == IndexAll(h, 1, <<>>)

\* DomService._create_selector_map(element_tree)
CreateSelectorMap(h, element_tree) == ProcessNode(h, element_tree, <<>>)

\* mutant of IframeNotFoundPrints: printed only when nothing was collected
PrintsWhenNoneCollected(cross_origin_iframes) ==
    IF Len(cross_origin_iframes) = 0 THEN 1 ELSE 0

\* the else clause of the for loop: the loop has no break, so it runs once
\* whenever the loop ends, whatever was collected and resolved
IframeNotFoundPrints(cross_origin_iframes) == 1

----------------------------------------------------------------------------
(* One get_clickable_elements request *)

VARIABLES
    pc,                    \* "start", "loop" (between two awaits of the for loop), "returned", "raised"
    eval_page,             \* what the script returned in the main document
    heap,                  \* the node objects
    html_to_dict,          \* the root of the tree being built
    cross_origin_iframes,  \* the list the for loop iterates over
    pos,                   \* position of the for loop in that list
    dom_state,             \* the DOMState handed to the caller, once returned
    exception,             \* what the request raised, if it did
    printed,               \* number of "Iframe not found" lines printed
    built,                 \* history: every node as its _parse_node call left it
    history                \* history: one entry per finished iteration of the for loop

vars == <<pc, eval_page, heap, html_to_dict, cross_origin_iframes, pos, dom_state,
          exception, printed, built, history>>

NoState == [element_tree |-> None, selector_map |-> <<>>]

RECURSIVE Reachable(_, _), ReachableIn(_, _)
\* the nodes of the tree under node, node included
Reachable(h, node) == {node} \cup ReachableIn(h, h[node].children)
ReachableIn(h, children) ==
    IF children = <<>> THEN {}
    ELSE Reachable(h, Head(children)) \cup ReachableIn(h, Tail(children))

Init ==
    /\ pc = "start"
    /\ eval_page = NullRecord
    /\ heap = <<>>
    /\ html_to_dict = None
    /\ cross_origin_iframes = <<>>
    /\ pos = 1
    /\ dom_state = NoState
    /\ exception = "none"
    /\ printed = 0
    /\ built = <<>>
    /\ history = <<>>

\* the request ends with an exception: nothing is returned
Raise(e) ==
    /\ pc' = "raised"
    /\ exception' = e
    /\ UNCHANGED <<heap, html_to_dict, cross_origin_iframes, pos, dom_state, printed,
                   built, history>>

\* _build_dom_tree up to the for loop: evaluate the script in the page, parse
\* the result, check it is an element, collect the cross-origin iframes
Evaluate ==
    /\ pc = "start"
    /\ \E d \in MainRecords :
        /\ eval_page' = d
        /\ LET r == ParseNode(d, None, heap) IN
           IF r.err THEN Raise("KeyError")
           ELSE IF r.node = None \/ ~IsElement(r.heap, r.node) THEN Raise("ValueError")
           ELSE /\ heap' = r.heap
                /\ built' = r.heap
                /\ html_to_dict' = r.node
                /\ cross_origin_iframes' = FindCrossOriginIframes(r.heap, r.node)
                /\ pos' = 1
                /\ pc' = "loop"
                /\ UNCHANGED <<dom_state, exception, printed, history>>

\* an iteration that ends without an exception
Iterated(h, b, entry) ==
    /\ heap' = h
    /\ built' = b
    /\ history' = Append(history, entry)
    /\ pos' = pos + 1
    /\ UNCHANGED <<pc, eval_page, html_to_dict, cross_origin_iframes, dom_state,
                   exception, printed>>

Entry(iframe, frame, result, iframe_dom, iframe_node) ==
    [iframe |-> iframe, frame |-> frame, result |-> result, iframe_dom |-> iframe_dom,
     iframe_node |-> iframe_node,
     reachable |-> iframe \in Reachable(heap, html_to_dict)]

\* one iteration of 'for iframe in cross_origin_iframes'
ResolveIframe ==
    /\ pc = "loop"
    /\ pos <= Len(cross_origin_iframes)
    /\ LET iframe == cross_origin_iframes[pos] IN
       \E frames \in SUBSET FrameIds :
          IF ~PageFrame(frames, heap[iframe].id)
          THEN Iterated(heap, built, Entry(iframe, FALSE, NullRecord, None, None))
          ELSE \E result \in IframeRecords :
             IF Falsy(result)
             THEN Iterated(heap, built, Entry(iframe, TRUE, result, None, None))
             ELSE LET r == ParseNode(result, None, heap)
                      b == built \o SubSeq(r.heap, Len(heap) + 1, Len(r.heap))
                      iframe_dom == r.node
                      iframe_node == IF iframe_dom # None /\ heap[iframe].id # NoId
                                     THEN FindIframeNode(r.heap, html_to_dict, heap[iframe].id)
                                     ELSE None
                  IN IF r.err THEN Raise("KeyError") /\ UNCHANGED eval_page
                     ELSE IF iframe_node # None /\ IsElement(r.heap, iframe_dom)
                     THEN Iterated(Splice(r.heap, iframe_node, iframe_dom), b,
                                   Entry(iframe, TRUE, result, iframe_dom, iframe_node))
                     ELSE Iterated(r.heap, b, Entry(iframe, TRUE, result, iframe_dom, None))

\* the loop is over: its else clause prints, _build_dom_tree returns the root,
\* get_clickable_elements builds the selector map and returns the DOMState
Return ==
    /\ pc = "loop"
    /\ pos > Len(cross_origin_iframes)
    /\ printed' = printed + IframeNotFoundPrints(cross_origin_iframes)
    /\ dom_state' = [element_tree |-> html_to_dict,
                     selector_map |-> CreateSelectorMap(heap, html_to_dict)]
    /\ pc' = "returned"
    /\ UNCHANGED <<eval_page, heap, html_to_dict, cross_origin_iframes, pos, exception,
                   built, history>>

Next == Evaluate \/ ResolveIframe \/ Return

Spec == Init /\ [][Next]_vars

----------------------------------------------------------------------------
(* Vocabulary of the properties *)

\* the tree handed back / being built
Tree == Reachable(heap, html_to_dict)

\* the places (holder, position) where node n stands in a children list
Holders(h, n) ==
    UNION {{<<m, i>> : i \in {j \in DOMAIN h[m].children : h[m].children[j] = n}} :
             m \in DOMAIN h}

\* the element nodes of the tree that carry a highlight index
Highlighted == {n \in Tree : heap[n].type = "element" /\ heap[n].highlight_index # NoIndex}

\* the nodes of the main document as first reconstructed
MainNodes == Reachable(built, html_to_dict)

\* the nodes that are in no tree any more
Discarded == (DOMAIN heap) \ Tree

RECURSIVE View(_, _), Views(_, _)
\* a node and its subtree, written as the raw record it would come from
View(h, n) ==
    IF h[n].type = "text" THEN TextRecord(TRUE, TRUE)
    ELSE ElementRecord(h[n].highlight_index, h[n].is_cross_oirigin_iframe, h[n].id,
                       Views(h, h[n].children))
Views(h, children) ==
    IF children = <<>> THEN <<>> ELSE <<View(h, Head(children))>> \o Views(h, Tail(children))

RECURSIVE Without(_, _), WithoutIn(_, _)
\* a raw record with the entries of the given shapes left out of every children list
Without(shapes, d) == [d EXCEPT !.children = WithoutIn(shapes, d.children)]
WithoutIn(shapes, ds) ==
    IF ds = <<>> THEN <<>>
    ELSE (IF Head(ds).shape \in shapes THEN <<>> ELSE <<Without(shapes, Head(ds))>>)
         \o WithoutIn(shapes, Tail(ds))

\* the top-level _parse_node calls that returned a node: the raw record, the node
Reconstructions ==
    (IF html_to_dict # None
     THEN {<<eval_page, html_to_dict>>} ELSE {})
    \cup {<<history[i].result, history[i].iframe_dom>> :
            i \in {j \in DOMAIN history : history[j].iframe_dom # None}}

RECURSIVE RecordsOf(_), RecordsIn(_)
\* the records of a raw tree: the record and the non-null entries below it
RecordsOf(d) == {d} \cup RecordsIn(d.children)
RecordsIn(ds) ==
    IF ds = <<>> THEN {}
    ELSE (IF Head(ds).shape = "None" THEN {} ELSE RecordsOf(Head(ds))) \cup RecordsIn(Tail(ds))

\* a record tagged as text without text or isVisible
TextLacksField(d) == d.type = "TEXT_NODE" /\ (~d.hasText \/ ~d.hasIsVisible)
\* a record not tagged as text without tagName or xpath
ElementLacksField(d) == d.type # "TEXT_NODE" /\ (~d.hasTagName \/ ~d.hasXpath)
\* the top-level result is null, a text record, or no element record
TopLevelNotElement(d) == d.shape # "dict" \/ d.type = "TEXT_NODE"

\* the request has got the script's result for the main document
Evaluated == pc # "start"

\* no snapshot, whole or partial, was handed back
NothingReturned == pc = "raised" /\ dom_state = NoState

----------------------------------------------------------------------------
(* C1 *)

\* C1: once the main record is reconstructed and after every iframe splice,
\* every node of the tree other than the root stands in exactly one children
\* list, that of the element node its parent field names, and the root
\* stands in none.
C1_ParentLinks ==
    pc \in {"loop", "returned"} =>
        /\ Holders(heap, html_to_dict) = {}
        /\ \A n \in Tree \ {html_to_dict} :
              /\ Cardinality(Holders(heap, n)) = 1
              /\ \A p \in Holders(heap, n) :
                    p[1] = heap[n].parent /\ IsElement(heap, p[1]) /\ p[1] \in Tree

\* a returned tree holding a spliced subtree that has a child of its own
C1_Witness ==
    /\ pc = "returned"
    /\ \E i \in DOMAIN history :
          /\ history[i].iframe_node # None
          /\ history[i].iframe_dom \in Tree
          /\ heap[history[i].iframe_dom].children # <<>>

----------------------------------------------------------------------------
(* C2 *)

\* C2: in every returned snapshot the selector map has as many entries as
\* the tree has element nodes with a highlight index.
C2_MapSizeIsHighlightedCount ==
    pc = "returned" =>
        Cardinality(DOMAIN dom_state.selector_map) = Cardinality(Highlighted)

----------------------------------------------------------------------------
(* C3 *)

\* C3: in every returned tree no two distinct element nodes carry the same
\* highlight index.
C3_UniqueHighlightIndex ==
    pc = "returned" =>
        \A n, m \in Highlighted :
            heap[n].highlight_index = heap[m].highlight_index => n = m

----------------------------------------------------------------------------
(* C4 *)

\* C4: in every returned snapshot each selector-map key k maps to an element
\* node of the returned tree whose highlight index is k.
C4_SelectorMapSound ==
    pc = "returned" =>
        \A k \in DOMAIN dom_state.selector_map :
            LET n == dom_state.selector_map[k] IN
                /\ n \in Reachable(heap, dom_state.element_tree)
                /\ heap[n].type = "element"
                /\ heap[n].highlight_index = k

\* a snapshot whose map points into a spliced subtree while a highlighted
\* node of the main document was discarded by a splice
C4_Witness ==
    /\ pc = "returned"
    /\ \E k \in DOMAIN dom_state.selector_map : dom_state.selector_map[k] \notin MainNodes
    /\ \E n \in Discarded : heap[n].type = "element" /\ heap[n].highlight_index # NoIndex

----------------------------------------------------------------------------
(* C5 *)

\* C5 as stated: the request raises and returns nothing whenever the
\* top-level result is null, a text record or no element record, or any
\* element record of the raw tree lacks tagName or xpath, or any text record
\* lacks text or isVisible.
C5_MalformedIsFatal ==
    (Evaluated /\ (\/ TopLevelNotElement(eval_page)
                   \/ \E d \in RecordsOf(eval_page) :
                         TextLacksField(d) \/ ElementLacksField(d)))
        => NothingReturned

\* C5, amended: as above, for the records that are not the empty object; an
\* empty object in a children list is skipped like a null entry.
C5_NonEmptyMalformedIsFatal ==
    (Evaluated /\ (\/ TopLevelNotElement(eval_page)
                   \/ \E d \in RecordsOf(eval_page) :
                         d.shape = "dict" /\ (TextLacksField(d) \/ ElementLacksField(d))))
        => NothingReturned

\* a well-formed root whose second child is a text record without isVisible
C5_Witness ==
    /\ pc = "raised"
    /\ exception = "KeyError"
    /\ ~TopLevelNotElement(eval_page) /\ ~ElementLacksField(eval_page)
    /\ Len(eval_page.children) = 2
    /\ eval_page.children[1].shape = "{}"
    /\ eval_page.children[2] = TextRecord(TRUE, FALSE)

----------------------------------------------------------------------------
(* C6 *)

----------------------------------------------------------------------------
(* C7 *)

\* C7 as stated: a reconstructed tree is the raw tree with the null entries
\* left out of every children list, the other entries reconstructed in order.
C7_NullEntriesOmitted ==
    \A r \in Reconstructions : View(built, r[2]) = Without({"None"}, r[1])

\* C7, amended: a reconstructed tree is the raw tree with the null entries
\* and the empty objects left out of every children list, the other entries
\* reconstructed in order.
C7_FalsyEntriesOmitted ==
    \A r \in Reconstructions : View(built, r[2]) = Without({"None", "{}"}, r[1])

\* a root whose two different entries were kept in their order, and an
\* iframe document whose only entry, a null, was left out
C7_Witness ==
    /\ pc = "returned"
    /\ Len(eval_page.children) = 2
    /\ eval_page.children[1] = TextRecord(TRUE, TRUE)
    /\ Len(built[html_to_dict].children) = 2
    /\ built[built[html_to_dict].children[1]].type = "text"
    /\ built[built[html_to_dict].children[2]].type = "element"
    /\ \E i \in DOMAIN history :
          /\ history[i].iframe_dom # None
          /\ history[i].result.children = <<NullRecord>>
          /\ built[history[i].iframe_dom].children = <<>>

----------------------------------------------------------------------------
(* C8 *)

\* C8: when a collected placeholder's frame gave an element subtree that was
\* spliced, the node the search found is the placeholder itself if it was
\* still in the tree, afterwards the placeholder's children are exactly that
\* subtree and the subtree's parent is the placeholder, and no other node's
\* children were replaced.
C8_SpliceAtPlaceholder ==
    (history # <<>> /\ pos = Len(history) + 1) =>
        LET e == history[Len(history)] IN
            e.iframe_node # None =>
                /\ e.reachable => e.iframe_node = e.iframe
                /\ heap[e.iframe].children = <<e.iframe_dom>>
                /\ heap[e.iframe_dom].parent = e.iframe
                /\ e.iframe_node = e.iframe

----------------------------------------------------------------------------
(* C9 *)

\* C9: the loop runs once over the placeholders collected from the tree as
\* first reconstructed, one iteration each and in collection order, and a
\* cross-origin iframe element that came with a spliced subtree keeps the
\* children it was reconstructed with.
C9_SinglePass ==
    pc \in {"loop", "returned"} =>
        /\ cross_origin_iframes = FindCrossOriginIframes(built, html_to_dict)
        /\ Len(history) = pos - 1
        /\ pos <= Len(cross_origin_iframes) + 1
        /\ \A i \in DOMAIN history : history[i].iframe = cross_origin_iframes[i]
        /\ \A n \in (DOMAIN heap) \ MainNodes :
              heap[n].is_cross_oirigin_iframe => heap[n].children = built[n].children

----------------------------------------------------------------------------
(* C10 *)

\* C10: "Iframe not found" is printed exactly in the step that ends the
\* loop, once, however many placeholders were collected and resolved; that
\* step raises nothing, leaves the tree as it was and returns it with the
\* selector map of that tree.
C10_DiagnosticAtLoopEnd ==
    [][/\ printed' \in {printed, printed + 1}
       /\ printed' = printed + 1 <=> (pc = "loop" /\ pos > Len(cross_origin_iframes))
       /\ printed' # printed =>
            /\ pc' = "returned" /\ exception' = "none"
            /\ heap' = heap /\ html_to_dict' = html_to_dict
            /\ dom_state' = [element_tree |-> html_to_dict,
                             selector_map |-> CreateSelectorMap(heap, html_to_dict)]]_vars

\* a request that printed although both of its placeholders were resolved
\* and spliced
C10_Witness ==
    /\ pc = "returned"
    /\ printed = 1
    /\ Len(cross_origin_iframes) = 2
    /\ \A i \in DOMAIN history : history[i].iframe_node # None

====
